---- MODULE Spec2Model ----
(***************************************************************************)
(* Ghostmap: a per-individual SEIRD simulation on a toroidal grid.         *)
(*                                                                         *)
(* The model follows the current sources: class Pathogen and class HostMap *)
(* (hostmap.hpp / pathogen.hpp) and the driver (struct Scenario, struct    *)
(* VisCallbacks and main).  Every random draw is a nondeterministic choice *)
(* over the support of its distribution.                                   *)
(***************************************************************************)
EXTENDS Integers, Sequences, FiniteSets, TLC

VARIABLES
    map,        \* HostMap: map[i][j] is the Host at row i, column j
    disease,    \* the Pathogen's parameters
    T,          \* Scenario::T, the day budget
    M,          \* Scenario::M, the number of steps per rendered frame
    S,          \* Scenario::S, the number of seeds
    pc,         \* position of the driver
    t,          \* the console loop's day counter t
    timers,     \* arguments of the pending glutTimerFunc(17, update, .) calls, oldest first
    i,          \* loop index of the update callback that is running
    advances,   \* number of computeNext() calls since the grid was last seeded
    visits,     \* the last contact search traced: the host's cell and the cells resolved, in order
    argv,       \* the command line after the program name, while main has not read it
    status,     \* the exit status of the process, -1 while it runs
    printed,    \* what the step just taken wrote: usage, grid, day count, summary
    seeded,     \* the last seedDisease traced: the coordinates it computed, in order
    twin,       \* the grid of a second run of the last seedDisease traced
    draws,      \* the values the last grid operation traced took from Pathogen::rng
    contacts    \* the last computeNext traced: every getNeighbor of its contact searches, in order

vars == <<map, disease, T, M, S, pc, t, timers, i, advances, visits,
          argv, status, printed, seeded, twin, draws, contacts>>

-----------------------------------------------------------------------------
(* Bounds of the model and the sets the inputs are drawn from.             *)

MaxT == 4           \* the largest day budget <num-steps>
MaxTimers == 2      \* the most timer callbacks pending at once
MaxDim == 3         \* contact search: grids of 1..MaxDim rows and columns
MaxContacts == 24   \* contact search: contact counts 1..MaxContacts
MaxScenarioT == 7    \* end-to-end scenario: the largest day budget
MaxSeeds == 2       \* grid operations: the largest count of seedDisease(count)

GridSizes == {2}                \* <popn-size> N: the grid is N x N
StepSizes == {0, 1, 2}          \* <step-size>
SeedCounts == {0, 1, 2}         \* <num-seeds>
ContactCounts == {2, 8}         \* values of 1 + Poisson(kT)
GeometricDraws == {0, 1}        \* values of a geometric draw with p < 1
Probabilities == {0, 50, 100}   \* <prob-transmit>, <prob-death>, in percent
MinDays == {0, 1}               \* <tmin-exposed>, <tmin-infected>
MeanDays == {1}                 \* <tavg-exposed>, <tavg-infected>
GridShapes == {<<1, 1>>, <<1, 2>>, <<2, 1>>, <<2, 2>>}   \* grid operations: HostMap(disease, r, c)
ScenarioSizes == {5}            \* end-to-end scenario: <popn-size>
ScenarioContacts == {1, 2, 8, 15}  \* end-to-end scenario: values of 1 + Poisson(8)

-----------------------------------------------------------------------------
(* Host = std::tuple<short, short, short>: state, days remaining, contacts *)

ShortBits == 16

\* a conversion that stops at the smallest short instead of wrapping
ToShortSaturating(x) == IF x < -(2^(ShortBits - 1)) THEN -(2^(ShortBits - 1)) ELSE x

ToShort(x) == ((x + 2^(ShortBits - 1)) % 2^ShortBits) - 2^(ShortBits - 1)

Host(st, days, nbrs) == [stage |-> st, days |-> days, nbrs |-> nbrs]

isSusceptible(h) == h.stage = 0
isExposed(h)     == h.stage = 1
\* a test that takes every later state for Infectious as well
isInfectiousOrBeyond(h) == h.stage >= 2

isInfectious(h)  == h.stage = 2
hasRunCourse(h)  == h.stage = 3
isRecovered(h)   == h.stage = 4
isDeceased(h)    == h.stage = 5

-----------------------------------------------------------------------------
(* Pathogen: the draws.  A Bernoulli(p) draw is FALSE when p = 0, TRUE     *)
(* when p = 1 and either otherwise; a geometric draw with success          *)
(* probability 1/(k - min + 1) is 0 when k = min and any natural number    *)
(* otherwise.                                                              *)

Bernoulli(p) == IF p = 0 THEN {FALSE} ELSE IF p = 100 THEN {TRUE} ELSE {TRUE, FALSE}

Geometric(den) == IF den = 1 THEN {0} ELSE GeometricDraws

\* the transmission draw taken from the death distribution
will_catchFromDeath(d) == Bernoulli(d.pdie)

will_catch(d) == Bernoulli(d.pcatch)

will_die(d) == Bernoulli(d.pdie)

\* the geometric draw without the shift by minE
incubationPeriodUnshifted(d) == {ToShort(g) : g \in Geometric(d.kE - d.minE + 1)}

incubationPeriod(d) == {ToShort(d.minE + g) : g \in Geometric(d.kE - d.minE + 1)}

infectionPeriod(d) == {ToShort(d.minI + g) : g \in Geometric(d.kI - d.minI + 1)}

\* 1 + ndist(rng): d.ndist is the set of values the draw takes
numNeighbors(d) == d.ndist

recover(h) == [h EXCEPT !.stage = 4]

kill(h) == [h EXCEPT !.stage = 5]

\* infect, for the incubation period n drawn
infectDrawn(h, n) == [h EXCEPT !.stage = 1, !.days = n]

\* infect: the set of hosts h can become
infect(d, h) == {infectDrawn(h, n) : n \in incubationPeriod(d)}

expose(d, h) ==
    UNION {IF c THEN infect(d, h) ELSE {h} : c \in will_catch(d)}

\* the two branches of expire exchanged
expireSwapped(d, h) == {IF c THEN recover(h) ELSE kill(h) : c \in will_die(d)}

expire(d, h) == {IF c THEN kill(h) ELSE recover(h) : c \in will_die(d)}

\* worsen without the call of expire: the host stays in state 3
worsenUnresolved(d, h) ==
    LET h1 == [h EXCEPT !.days = ToShort(h.days - 1)]
    IN  IF h1.days = 0
        THEN LET h2 == [h1 EXCEPT !.stage = h1.stage + 1]
             IN  IF hasRunCourse(h2)
                 THEN {h2}
                 ELSE {[h2 EXCEPT !.days = n] : n \in infectionPeriod(d)}
        ELSE {h1}

\* worsen testing the days before it decrements them: days-- == 0
worsenLate(d, h) ==
    LET h1 == [h EXCEPT !.days = ToShort(h.days - 1)]
    IN  IF h.days = 0
        THEN LET h2 == [h1 EXCEPT !.stage = h1.stage + 1]
             IN  IF hasRunCourse(h2)
                 THEN expire(d, h2)
                 ELSE {[h2 EXCEPT !.days = n] : n \in infectionPeriod(d)}
        ELSE {h1}

\* worsen that also clears the contact count, as for a host put in quarantine
worsenIsolating(d, h) ==
    LET h1 == [h EXCEPT !.days = ToShort(h.days - 1), !.nbrs = 0]
    IN  IF h1.days = 0
        THEN LET h2 == [h1 EXCEPT !.stage = h1.stage + 1]
             IN  IF hasRunCourse(h2)
                 THEN expire(d, h2)
                 ELSE {[h2 EXCEPT !.days = n] : n \in infectionPeriod(d)}
        ELSE {h1}

worsen(d, h) ==
    LET h1 == [h EXCEPT !.days = ToShort(h.days - 1)]
    IN  IF h1.days = 0
        THEN LET h2 == [h1 EXCEPT !.stage = h1.stage + 1]
             IN  IF hasRunCourse(h2)
                 THEN expire(d, h2)
                 ELSE {[h2 EXCEPT !.days = n] : n \in infectionPeriod(d)}
        ELSE {h1}

-----------------------------------------------------------------------------
(* HostMap                                                                 *)

row_count(m) == Cardinality(DOMAIN m)

col_count(m) == Cardinality(DOMAIN m[0])

Cells(m) == (DOMAIN m) \X (DOMAIN m[0])

\* an index clamped to the grid instead of wrapped around it
WrapIndexClamped(x, N) == IF x < 0 THEN 0 ELSE IF x >= N THEN N - 1 ELSE x

\* the index getNeighbor computes from i on an axis of length N
WrapIndex(x, N) == IF x < 0 THEN N + x ELSE IF x >= N THEN x - N ELSE x

getNeighbor(m, x, y) == <<WrapIndex(x, row_count(m)), WrapIndex(y, col_count(m))>>

\* the largest r with r * r <= n
ISqrt(n) == CHOOSE r \in 0..n : r * r <= n /\ (r + 1) * (r + 1) > n

\* the quotient rounded up: ceil((sqrt(t + 1) - 1) / 2)
HalfWidthCeiling(n) ==
    LET r == ISqrt(n + 1)
    IN  IF r * r = n + 1 THEN r \div 2 ELSE (r - 1) \div 2 + 1

\* the quotient truncated instead of rounded: floor((sqrt(t + 1) - 1) / 2)
HalfWidthTruncated(n) == (ISqrt(n + 1) - 1) \div 2

\* std::lround((std::sqrt(t + 1) - 1) / 2) = floor(sqrt(t + 1) / 2) = floor(sqrt((t + 1) div 4))
HalfWidth(n) == ISqrt((n + 1) \div 4)

\* the loops running one cell further on every side: hi from i-k-1 to i+k+1
ContactCoordsWide(x, y, k) ==
    [n \in 1..((2 * k + 3) * (2 * k + 3)) |->
        <<x - k - 1 + ((n - 1) \div (2 * k + 3)), y - k - 1 + ((n - 1) % (2 * k + 3))>>]

\* a search over the host's row and column only
ContactCoordsCross(x, y, k) ==
    [n \in 1..(4 * k + 1) |->
        IF n <= 2 * k + 1 THEN <<x - k + (n - 1), y>>
        ELSE LET j == n - (2 * k + 1)
             IN  <<x, y + (IF j <= k THEN -j ELSE j - k)>>]

\* the coordinates (hi, hj) of the two nested loops of computeContacts, in loop order
ContactCoords(x, y, k) ==
    [n \in 1..((2 * k + 1) * (2 * k + 1)) |->
        <<x - k + ((n - 1) \div (2 * k + 1)), y - k + ((n - 1) % (2 * k + 1))>>]

\* the contact loop without the isSusceptible test
RECURSIVE ContactsFromAnyHost(_, _, _, _)
ContactsFromAnyHost(d, m, cs, n) ==
    IF n > Len(cs) THEN {m}
    ELSE LET c == getNeighbor(m, cs[n][1], cs[n][2])
         IN  UNION {ContactsFromAnyHost(d, [m EXCEPT ![c[1]][c[2]] = h], cs, n + 1) :
                        h \in expose(d, m[c[1]][c[2]])}

\* the rest of the contact loop of computeContacts, from the n-th coordinate on
RECURSIVE ContactsFrom(_, _, _, _)
ContactsFrom(d, m, cs, n) ==
    IF n > Len(cs) THEN {m}
    ELSE LET c == getNeighbor(m, cs[n][1], cs[n][2])
             x == m[c[1]][c[2]]
         IN  IF isSusceptible(x)
             THEN UNION {ContactsFrom(d, [m EXCEPT ![c[1]][c[2]] = h], cs, n + 1) :
                            h \in expose(d, x)}
             ELSE ContactsFrom(d, m, cs, n + 1)

\* the cells getNeighbor(hi, hj) resolves in one computeContacts(x, y), in loop order
Visited(m, x, y) ==
    LET cs == ContactCoords(x, y, HalfWidth(m[x][y].nbrs))
    IN  [n \in DOMAIN cs |-> getNeighbor(m, cs[n][1], cs[n][2])]

computeContacts(d, m, x, y) ==
    ContactsFrom(d, m, ContactCoords(x, y, HalfWidth(m[x][y].nbrs)), 1)

\* the scan testing the in-progress cell instead of yesterday's copy
RECURSIVE ScanFromInProgress(_, _, _, _)
ScanFromInProgress(d, m_prev, m, n) ==
    LET N == row_count(m)
        C == col_count(m)
        x == n \div C
        y == n % C
    IN  IF n >= N * C THEN {m}
        ELSE IF isExposed(m[x][y])
        THEN UNION {ScanFromInProgress(d, m_prev, [m EXCEPT ![x][y] = h], n + 1) :
                        h \in worsen(d, m[x][y])}
        ELSE IF isInfectious(m[x][y])
        THEN UNION {UNION {ScanFromInProgress(d, m_prev, m2, n + 1) :
                              m2 \in computeContacts(d, [m EXCEPT ![x][y] = h], x, y)} :
                        h \in worsen(d, m[x][y])}
        ELSE ScanFromInProgress(d, m_prev, m, n + 1)

\* the rest of the row-major scan of computeNext, from cell number n on
RECURSIVE ScanFrom(_, _, _, _)
ScanFrom(d, m_prev, m, n) ==
    LET N == row_count(m)
        C == col_count(m)
        x == n \div C
        y == n % C
    IN  IF n >= N * C THEN {m}
        ELSE IF isExposed(m_prev[x][y])
        THEN UNION {ScanFrom(d, m_prev, [m EXCEPT ![x][y] = h], n + 1) :
                        h \in worsen(d, m[x][y])}
        ELSE IF isInfectious(m_prev[x][y])
        THEN UNION {UNION {ScanFrom(d, m_prev, m2, n + 1) :
                              m2 \in computeContacts(d, [m EXCEPT ![x][y] = h], x, y)} :
                        h \in worsen(d, m[x][y])}
        ELSE ScanFrom(d, m_prev, m, n + 1)

\* the grids one computeNext() can leave
computeNext(d, m) == ScanFrom(d, m, m, 0)

\* one record of the trace of a step: the infectious host at from resolved the
\* cell to; drawn when the cell was Susceptible and expose was called, caught
\* when will_catch() succeeded
Contact(from, to, drawn, caught) ==
    [from |-> from, to |-> to, drawn |-> drawn, caught |-> caught]

\* a step whose outcome is the grid m, traced by log
Traced(m, log) == [m |-> m, log |-> log]

\* the traced contact loop with the isSusceptible test left out
RECURSIVE ContactsTracedAnyHost(_, _, _, _, _, _)
ContactsTracedAnyHost(d, m, at, cs, n, log) ==
    IF n > Len(cs) THEN {Traced(m, log)}
    ELSE LET c == getNeighbor(m, cs[n][1], cs[n][2])
             x == m[c[1]][c[2]]
         IN  UNION {ContactsTracedAnyHost(d, [m EXCEPT ![c[1]][c[2]] = h], at, cs, n + 1,
                                          Append(log, Contact(at, c, TRUE, h # x))) :
                        h \in expose(d, x)}

\* the contact loop of computeContacts(at) from the n-th coordinate on, every
\* getNeighbor and every expose appended to log
RECURSIVE ContactsTraced(_, _, _, _, _, _)
ContactsTraced(d, m, at, cs, n, log) ==
    IF n > Len(cs) THEN {Traced(m, log)}
    ELSE LET c == getNeighbor(m, cs[n][1], cs[n][2])
             x == m[c[1]][c[2]]
         IN  IF isSusceptible(x)
             THEN UNION {ContactsTraced(d, [m EXCEPT ![c[1]][c[2]] = h], at, cs, n + 1,
                                        Append(log, Contact(at, c, TRUE, isExposed(h)))) :
                            h \in expose(d, x)}
             ELSE ContactsTraced(d, m, at, cs, n + 1, Append(log, Contact(at, c, FALSE, FALSE)))

\* the traced scan that runs the contact search only for a host still
\* Infectious after worsen
RECURSIVE ScanTracedUnresolvedOnly(_, _, _, _, _)
ScanTracedUnresolvedOnly(d, m_prev, m, n, log) ==
    LET N == row_count(m)
        C == col_count(m)
        x == n \div C
        y == n % C
    IN  IF n >= N * C THEN {Traced(m, log)}
        ELSE IF isExposed(m_prev[x][y])
        THEN UNION {ScanTracedUnresolvedOnly(d, m_prev, [m EXCEPT ![x][y] = h], n + 1, log) :
                        h \in worsen(d, m[x][y])}
        ELSE IF isInfectious(m_prev[x][y])
        THEN UNION {IF isInfectious(h)
                    THEN UNION {ScanTracedUnresolvedOnly(d, m_prev, r.m, n + 1, r.log) :
                                   r \in ContactsTraced(d, [m EXCEPT ![x][y] = h], <<x, y>>,
                                             ContactCoords(x, y, HalfWidth(m[x][y].nbrs)), 1, log)}
                    ELSE ScanTracedUnresolvedOnly(d, m_prev, [m EXCEPT ![x][y] = h], n + 1, log) :
                        h \in worsen(d, m[x][y])}
        ELSE ScanTracedUnresolvedOnly(d, m_prev, m, n + 1, log)

\* the traced scan testing the cell being written instead of yesterday's copy
RECURSIVE ScanTracedInProgress(_, _, _, _, _)
ScanTracedInProgress(d, m_prev, m, n, log) ==
    LET N == row_count(m)
        C == col_count(m)
        x == n \div C
        y == n % C
    IN  IF n >= N * C THEN {Traced(m, log)}
        ELSE IF isExposed(m[x][y])
        THEN UNION {ScanTracedInProgress(d, m_prev, [m EXCEPT ![x][y] = h], n + 1, log) :
                        h \in worsen(d, m[x][y])}
        ELSE IF isInfectious(m[x][y])
        THEN UNION {UNION {ScanTracedInProgress(d, m_prev, r.m, n + 1, r.log) :
                              r \in ContactsTraced(d, [m EXCEPT ![x][y] = h], <<x, y>>,
                                        ContactCoords(x, y, HalfWidth(m[x][y].nbrs)), 1, log)} :
                        h \in worsen(d, m[x][y])}
        ELSE ScanTracedInProgress(d, m_prev, m, n + 1, log)

\* the row-major scan of computeNext from cell number n on, its contact
\* searches appended to log
RECURSIVE ScanTraced(_, _, _, _, _)
ScanTraced(d, m_prev, m, n, log) ==
    LET N == row_count(m)
        C == col_count(m)
        x == n \div C
        y == n % C
    IN  IF n >= N * C THEN {Traced(m, log)}
        ELSE IF isExposed(m_prev[x][y])
        THEN UNION {ScanTraced(d, m_prev, [m EXCEPT ![x][y] = h], n + 1, log) :
                        h \in worsen(d, m[x][y])}
        ELSE IF isInfectious(m_prev[x][y])
        THEN UNION {UNION {ScanTraced(d, m_prev, r.m, n + 1, r.log) :
                              r \in ContactsTraced(d, [m EXCEPT ![x][y] = h], <<x, y>>,
                                        ContactCoords(x, y, HalfWidth(m[x][y].nbrs)), 1, log)} :
                        h \in worsen(d, m[x][y])}
        ELSE ScanTraced(d, m_prev, m, n + 1, log)

\* the outcomes of one computeNext(), each with its trace
computeNextTraced(d, m) == ScanTraced(d, m, m, 0, <<>>)

\* a count of the Infectious hosts only
countInfectious(m) == Cardinality({c \in Cells(m) : isInfectious(m[c[1]][c[2]])})

countInfected(m) ==
    Cardinality({c \in Cells(m) : isExposed(m[c[1]][c[2]]) \/ isInfectious(m[c[1]][c[2]])})

countRecovered(m) == Cardinality({c \in Cells(m) : isRecovered(m[c[1]][c[2]])})

countDeceased(m) == Cardinality({c \in Cells(m) : isDeceased(m[c[1]][c[2]])})

\* the character print() writes for one cell
PrintCell(h) ==
    IF isSusceptible(h) THEN "s"
    ELSE IF isExposed(h) THEN (IF isInfectious(h) THEN "I" ELSE "e")
    ELSE IF isDeceased(h) THEN " "
    ELSE IF isRecovered(h) THEN "R"
    ELSE "!"

\* the rows print() writes
print(m) == [x \in DOMAIN m |-> [y \in DOMAIN m[0] |-> PrintCell(m[x][y])]]

\* the three numbers printSummary() writes: died, recovered, still infected
printSummary(m) == <<countDeceased(m), countRecovered(m), countInfected(m)>>

\* a reset that leaves the Recovered and Deceased hosts as they are
resetKeepResolved(d, m) ==
    {m2 \in [DOMAIN m -> [DOMAIN m[0] -> {Host(0, 0, n) : n \in numNeighbors(d)}
                                            \cup {m[x][y] : x \in DOMAIN m, y \in DOMAIN m[0]}]] :
        \A x \in DOMAIN m, y \in DOMAIN m[0] :
            IF m[x][y].stage \in {4, 5} THEN m2[x][y] = m[x][y] ELSE m2[x][y].stage = 0 /\ m2[x][y].days = 0}

\* the grids reset() can leave: every cell (0, 0, numNeighbors())
reset(d, m) ==
    [DOMAIN m -> [DOMAIN m[0] -> {Host(0, 0, n) : n \in numNeighbors(d)}]]

\* the values d(gen) of seedDisease can take
SeedIndices(m) == 0..(row_count(m) * col_count(m) - 1)

\* i = k / size(), j = k % size(), size() being the number of rows
SeedCoord(m, k) == <<k \div row_count(m), k % row_count(m)>>

\* the loop of seedDisease from its j-th round on, for the indices ks drawn
\* from the local generator and the incubation periods ns drawn from
\* Pathogen::rng.  A coordinate outside the grid is undefined behaviour: here
\* the write misses the grid's cells.
RECURSIVE seedDiseaseDrawn(_, _, _, _)
seedDiseaseDrawn(m, ks, ns, j) ==
    IF j > Len(ks) THEN m
    ELSE LET c == SeedCoord(m, ks[j])
         IN  IF c \in Cells(m)
             THEN seedDiseaseDrawn(
                      [m EXCEPT ![c[1]][c[2]] = infectDrawn(m[c[1]][c[2]], ns[j])],
                      ks, ns, j + 1)
             ELSE seedDiseaseDrawn(m, ks, ns, j + 1)

\* the grids seedDisease(count) can leave
seedDisease(d, m, count) ==
    {seedDiseaseDrawn(m, ks, ns, 1) :
        ks \in [1..count -> SeedIndices(m)], ns \in [1..count -> incubationPeriod(d)]}

-----------------------------------------------------------------------------
(* The driver: main, the console loop and the GLUT callbacks.              *)

\* Pathogen(name, pE, pD, minE, kE, minI, kI, kT, kQ) with kE >= minE and kI >= minI
Pathogens(ps, mins, ns) ==
    {d \in [pcatch : ps, pdie : ps, minE : mins, kE : MeanDays,
            minI : mins, kI : MeanDays, ndist : {ns}, timeQ : {0}] :
        d.kE >= d.minE /\ d.kI >= d.minI}

\* HostMap map({...}, N, N): every cell (0, 0, numNeighbors())
HostMap(d, r, c) ==
    [0..(r - 1) -> [0..(c - 1) -> {Host(0, 0, n) : n \in numNeighbors(d)}]]

NoVisits == [at |-> <<0, 0>>, cells |-> <<>>]

\* nothing written yet
NoOutput == [usage |-> FALSE, grid |-> <<>>, days |-> 0, summary |-> <<>>]

\* main up to the construction of the map, for the pathogens ds, the day
\* budgets ts, the step sizes ms and the seed counts ss
Start(ds, ts, ms, ss) ==
    /\ disease \in ds
    /\ \E N \in GridSizes : map \in HostMap(disease, N, N)
    /\ T \in ts
    /\ M \in ms
    /\ S \in ss
    /\ pc = "main"
    /\ t = 0
    /\ timers = <<>>
    /\ i = 0
    /\ advances = 0
    /\ visits = NoVisits
    /\ argv = <<>>
    /\ status = -1
    /\ printed = NoOutput
    /\ seeded = <<>>
    /\ twin = <<>>
    /\ draws = 0
    /\ contacts = <<>>

\* map.seedDisease(Scenario::S); then std::cin.get() chooses the console loop or the GUI
MainSeed(console) ==
    /\ pc = "main"
    /\ map' \in seedDisease(disease, map, S)
    /\ IF console
       THEN pc' = "console" /\ timers' = timers
       ELSE pc' = "gui" /\ timers' = <<0>>
    /\ UNCHANGED <<disease, T, M, S, t, i, advances, visits>>
    /\ UNCHANGED <<contacts, argv, status, printed, seeded, twin, draws>>

\* while (map.countInfected() > 0 && t++ < T) map.computeNext();
ConsoleStep ==
    /\ pc = "console"
    /\ countInfected(map) > 0
    /\ t < T
    /\ t' = t + 1
    /\ map' \in computeNext(disease, map)
    /\ advances' = advances + 1
    /\ UNCHANGED <<disease, T, M, S, pc, timers, i, visits>>
    /\ UNCHANGED <<contacts, argv, status, printed, seeded, twin, draws>>

\* the loop guard fails: t++ is evaluated unless countInfected() is 0; then
\* map.print(), "After t days...", map.printSummary() and return 0
ConsoleExit ==
    /\ pc = "console"
    /\ ~(countInfected(map) > 0 /\ t < T)
    /\ t' = IF countInfected(map) > 0 THEN t + 1 ELSE t
    /\ pc' = "done"
    /\ printed' = [usage |-> FALSE, grid |-> print(map), days |-> t',
                   summary |-> printSummary(map)]
    /\ status' = 0
    /\ UNCHANGED <<map, disease, T, M, S, timers, i, advances, visits>>
    /\ UNCHANGED <<contacts, argv, seeded, twin, draws>>

\* VisCallbacks::update(dt), guard true: reschedule with dt + M, then M steps
UpdateBegin ==
    /\ pc = "gui"
    /\ timers # <<>>
    /\ countInfected(map) > 0
    /\ Head(timers) < T
    /\ timers' = Append(Tail(timers), Head(timers) + M)
    /\ i' = 0
    /\ pc' = IF M = 0 THEN "gui" ELSE "update"
    /\ UNCHANGED <<map, disease, T, M, S, t, advances, visits>>
    /\ UNCHANGED <<contacts, argv, status, printed, seeded, twin, draws>>

\* one iteration of for (size_t i = 0; i < Scenario::M; ++i) map.computeNext();
UpdateStep ==
    /\ pc = "update"
    /\ i < M
    /\ map' \in computeNext(disease, map)
    /\ advances' = advances + 1
    /\ i' = i + 1
    /\ pc' = IF i + 1 < M THEN "update" ELSE "gui"
    /\ UNCHANGED <<disease, T, M, S, t, timers, visits>>
    /\ UNCHANGED <<contacts, argv, status, printed, seeded, twin, draws>>

\* VisCallbacks::update(dt), guard false: the chain ends
UpdateHalt ==
    /\ pc = "gui"
    /\ timers # <<>>
    /\ ~(countInfected(map) > 0 /\ Head(timers) < T)
    /\ timers' = Tail(timers)
    /\ UNCHANGED <<map, disease, T, M, S, pc, t, i, advances, visits>>
    /\ UNCHANGED <<contacts, argv, status, printed, seeded, twin, draws>>

\* VisCallbacks::keyboard('r'): Scenario::reset(); glutTimerFunc(17, update, 0);
KeyboardReset ==
    /\ pc = "gui"
    /\ Len(timers) < MaxTimers
    /\ \E m2 \in reset(disease, map) : map' \in seedDisease(disease, m2, S)
    /\ timers' = Append(timers, 0)
    /\ advances' = 0
    /\ UNCHANGED <<disease, T, M, S, pc, t, i, visits>>
    /\ UNCHANGED <<contacts, argv, status, printed, seeded, twin, draws>>

\* VisCallbacks::keyboard(033): exit(EXIT_SUCCESS)
KeyboardEscape ==
    /\ pc = "gui"
    /\ pc' = "done"
    /\ status' = 0
    /\ UNCHANGED <<map, disease, T, M, S, t, timers, i, advances, visits>>
    /\ UNCHANGED <<contacts, argv, printed, seeded, twin, draws>>

-----------------------------------------------------------------------------
(* Spec: the whole program, console loop and GUI, for a pathogen whose two  *)
(* Bernoulli draws can go either way and whose periods last one day.       *)

Init == Start(Pathogens({50}, {1}, {8}), 0..MaxT, StepSizes, SeedCounts)

Next ==
    \/ \E console \in BOOLEAN : MainSeed(console)
    \/ ConsoleStep
    \/ ConsoleExit
    \/ UpdateBegin
    \/ UpdateStep
    \/ UpdateHalt
    \/ KeyboardReset
    \/ KeyboardEscape

Spec == Init /\ [][Next]_vars

-----------------------------------------------------------------------------
(* SpecDisease: a console run with the full day budget, for every pathogen, *)
(* from at most one seed.                                                  *)

InitDisease == Start(Pathogens(Probabilities, MinDays, ContactCounts), {MaxT}, {1}, {0, 1})

NextDisease ==
    \/ MainSeed(TRUE)
    \/ ConsoleStep
    \/ ConsoleExit

SpecDisease == InitDisease /\ [][NextDisease]_vars

-----------------------------------------------------------------------------
(* SpecContacts: the contact search of one host, on freshly constructed    *)
(* grids of every shape up to MaxDim x MaxDim.                             *)

InitContacts ==
    /\ disease \in Pathogens({50}, {1}, 1..MaxContacts)
    /\ \E r \in 1..MaxDim, c \in 1..MaxDim, n \in numNeighbors(disease) :
          map = [x \in 0..(r - 1) |-> [y \in 0..(c - 1) |-> Host(0, 0, n)]]
    /\ T = 0 /\ M = 0 /\ S = 0
    /\ pc = "contacts"
    /\ t = 0
    /\ timers = <<>>
    /\ i = 0
    /\ advances = 0
    /\ visits = NoVisits
    /\ argv = <<>>
    /\ status = -1
    /\ printed = NoOutput
    /\ seeded = <<>>
    /\ twin = <<>>
    /\ draws = 0
    /\ contacts = <<>>

\* the two loops of computeContacts(x, y), every getNeighbor(hi, hj) recorded
ContactSearch ==
    /\ pc = "contacts"
    /\ \E c \in Cells(map) : visits' = [at |-> c, cells |-> Visited(map, c[1], c[2])]
    /\ UNCHANGED <<map, disease, T, M, S, pc, t, timers, i, advances>>
    /\ UNCHANGED <<contacts, argv, status, printed, seeded, twin, draws>>

NextContacts == ContactSearch

SpecContacts == InitContacts /\ [][NextContacts]_vars

-----------------------------------------------------------------------------
(* SpecStartup: the program from its entry, for command lines of 0, 11, 12 *)
(* and 13 parameters whose <num-steps> and <num-seeds> are any string of   *)
(* ArgStrings and whose <quarantine-delay> is any string of DelayStrings.  *)

Digits == <<"0", "1", "2", "3", "4", "5", "6", "7", "8", "9">>

IsDigit(ch) == \E k \in DOMAIN Digits : Digits[k] = ch

DigitValue(ch) == (CHOOSE k \in DOMAIN Digits : Digits[k] = ch) - 1

\* the longest prefix of str made of digits
DigitPrefix(str) ==
    LET n == CHOOSE k \in 0..Len(str) :
                 /\ \A j \in 1..k : IsDigit(str[j])
                 /\ k < Len(str) => ~IsDigit(str[k + 1])
    IN  SubSeq(str, 1, n)

RECURSIVE DecimalValue(_)
DecimalValue(ds) ==
    IF ds = <<>> THEN 0
    ELSE 10 * DecimalValue(SubSeq(ds, 1, Len(ds) - 1)) + DigitValue(ds[Len(ds)])

\* std::atoi of an unsigned decimal string: the value of its leading digits,
\* 0 when there is none
Atoi(str) == DecimalValue(DigitPrefix(str))

\* std::atof of a string d.dd, in percent: the leading digits, then the first
\* two digits after a decimal point
Atof(str) ==
    LET ip == DigitPrefix(str)
        rest == SubSeq(str, Len(ip) + 2, Len(str))
        fp == IF Len(str) > Len(ip) /\ str[Len(ip) + 1] = "." THEN DigitPrefix(rest) ELSE <<>>
        d(k) == IF k <= Len(fp) THEN DigitValue(fp[k]) ELSE 0
    IN  100 * DecimalValue(ip) + 10 * d(1) + d(2)

Int8Bits == 8

\* the cast (int8_t)
ToInt8(x) == ((x + 2^(Int8Bits - 1)) % 2^Int8Bits) - 2^(Int8Bits - 1)

\* a command line accepted as it stands: 2 x 2 hosts, pE = pD = 0.5, periods
\* of one day, 8 contacts, one step per frame
BaseArgs ==
    <<<<"2">>, <<"1">>, <<"0", ".", "5">>, <<"0", ".", "5">>, <<"1">>, <<"1">>,
      <<"1">>, <<"1">>, <<"8">>, <<"0">>, <<"1">>, <<"1">>>>

ArgCounts == {0, 11, 12, 13}

ArgStrings == {<<"0">>, <<"1">>, <<"2">>, <<"x">>, <<"1", "x">>, <<>>}

\* values of <quarantine-delay>: 0, the largest int8_t and the next integer
DelayStrings == {<<"0">>, <<"1", "2", "7">>, <<"1", "2", "8">>}

\* an argument count too large taken for a good one
ArgCountAtLeast(args) == Len(args) >= 12

\* argc == 13
ArgCountOk(args) == Len(args) = 12

InitStartup ==
    /\ \E n \in ArgCounts, steps \in ArgStrings, seeds \in ArgStrings,
          delay \in DelayStrings :
          argv = [j \in 1..n |-> IF j = 2 THEN steps
                                 ELSE IF j = 10 THEN delay
                                 ELSE IF j = 11 THEN seeds
                                 ELSE IF j <= 12 THEN BaseArgs[j] ELSE <<"1">>]
    /\ map = <<>>
    /\ disease = <<>>
    /\ T = 0 /\ M = 0 /\ S = 0
    /\ pc = "start"
    /\ t = 0
    /\ timers = <<>>
    /\ i = 0
    /\ advances = 0
    /\ visits = NoVisits
    /\ status = -1
    /\ printed = NoOutput
    /\ seeded = <<>>
    /\ twin = <<>>
    /\ draws = 0
    /\ contacts = <<>>

\* if (argc != 13) { printUsage(argv[0]); return 1; }
MainUsage ==
    /\ pc = "start"
    /\ ~ArgCountOk(argv)
    /\ printed' = [NoOutput EXCEPT !.usage = TRUE]
    /\ status' = 1
    /\ pc' = "done"
    /\ UNCHANGED <<map, disease, T, M, S, t, timers, i, advances, visits>>
    /\ UNCHANGED <<contacts, argv, seeded, twin, draws>>

\* the atoi and atof calls of main and HostMap map({...}, N, N); the contact
\* count 1 + Poisson(KT) is taken at 1 + KT
MainParse ==
    /\ pc = "start"
    /\ ArgCountOk(argv)
    /\ T' = Atoi(argv[2])
    /\ S' = Atoi(argv[11])
    /\ M' = Atoi(argv[12])
    /\ disease' = [pcatch |-> Atof(argv[3]), pdie |-> Atof(argv[4]),
                   minE |-> ToInt8(Atoi(argv[5])), kE |-> ToInt8(Atoi(argv[6])),
                   minI |-> ToInt8(Atoi(argv[7])), kI |-> ToInt8(Atoi(argv[8])),
                   ndist |-> {1 + ToInt8(Atoi(argv[9]))},
                   timeQ |-> ToShort(ToInt8(Atoi(argv[10])))]
    /\ map' \in HostMap(disease', Atoi(argv[1]), Atoi(argv[1]))
    /\ pc' = "main"
    /\ UNCHANGED <<t, timers, i, advances, visits>>
    /\ UNCHANGED <<contacts, argv, status, printed, seeded, twin, draws>>

NextStartup ==
    \/ MainUsage
    \/ MainParse
    \/ \E console \in BOOLEAN : MainSeed(console)
    \/ ConsoleStep
    \/ ConsoleExit
    \/ UpdateBegin
    \/ UpdateStep
    \/ UpdateHalt
    \/ KeyboardReset
    \/ KeyboardEscape

SpecStartup == InitStartup /\ [][NextStartup]_vars

-----------------------------------------------------------------------------
(* SpecGrid: the operations of one HostMap, on grids of every shape in     *)
(* GridShapes whose hosts are in any stage.  pc names the operation last   *)
(* performed; seedDisease is called on a freshly reset grid only, as in    *)
(* Scenario::reset.                                                        *)

\* a host as a run leaves it between two steps, with contact count n
HostKinds(n) ==
    {Host(0, 0, n), Host(1, 1, n), Host(2, 1, n), Host(4, 0, n), Host(5, 0, n)}

InitGrid ==
    /\ disease \in Pathogens({50}, MinDays, ContactCounts)
    /\ disease.minI = 1
    /\ \E shape \in GridShapes, n \in numNeighbors(disease) :
          map \in [0..(shape[1] - 1) -> [0..(shape[2] - 1) -> HostKinds(n)]]
    /\ T = 0 /\ M = 0 /\ S = 0
    /\ pc = "grid"
    /\ t = 0
    /\ timers = <<>>
    /\ i = 0
    /\ advances = 0
    /\ visits = NoVisits
    /\ argv = <<>>
    /\ status = -1
    /\ printed = NoOutput
    /\ seeded = <<>>
    /\ twin = <<>>
    /\ draws = 0
    /\ contacts = <<>>

\* map.printSummary(): the three count queries
GridSummary ==
    /\ pc \in {"grid", "reset", "seed", "summary"}
    /\ printed' = [NoOutput EXCEPT !.summary = printSummary(map)]
    /\ draws' = 0
    /\ pc' = "summary"
    /\ UNCHANGED <<map, disease, T, M, S, t, timers, i, advances, visits>>
    /\ UNCHANGED <<contacts, argv, status, seeded, twin>>

\* map.reset(): one numNeighbors() draw for every cell
GridReset ==
    /\ pc \in {"grid", "reset", "seed", "summary"}
    /\ map' \in reset(disease, map)
    /\ draws' = row_count(map) * col_count(map)
    /\ pc' = "reset"
    /\ printed' = NoOutput
    /\ seeded' = <<>>
    /\ twin' = <<>>
    /\ UNCHANGED <<disease, T, M, S, t, timers, i, advances, visits>>
    /\ UNCHANGED <<contacts, argv, status>>

\* map.seedDisease(count), run twice from the same grid and the same state of
\* Pathogen::rng: both runs take the incubation periods ns from it, each
\* draws its indices from a generator of its own, seeded by random_device.
\* A coordinate outside the grid either misses the cells or ends the process.
\* S is the count passed.
GridSeed ==
    /\ pc = "reset"
    /\ \E count \in 0..MaxSeeds :
        \E ks \in [1..count -> SeedIndices(map)], ks2 \in [1..count -> SeedIndices(map)],
           ns \in [1..count -> incubationPeriod(disease)] :
            /\ S' = count
            /\ map' = seedDiseaseDrawn(map, ks, ns, 1)
            /\ twin' = seedDiseaseDrawn(map, ks2, ns, 1)
            /\ seeded' = [j \in 1..count |-> SeedCoord(map, ks[j])]
            /\ draws' = count
            /\ \/ pc' = "seed"
               \/ /\ \E j \in 1..count : SeedCoord(map, ks[j]) \notin Cells(map)
                  /\ pc' = "crashed"
    /\ printed' = NoOutput
    /\ UNCHANGED <<disease, T, M, t, timers, i, advances, visits>>
    /\ UNCHANGED <<contacts, argv, status>>

NextGrid ==
    \/ GridSummary
    \/ GridReset
    \/ GridSeed

SpecGrid == InitGrid /\ [][NextGrid]_vars

-----------------------------------------------------------------------------
(* SpecScenario: console runs on the 5 x 5 grid with pE = 1, pD = 0,       *)
(* minE = kE = minI = kI = 1, kT = 8 and one seed.  One cell (2, 2) draws  *)
(* its contact count on its own, the other cells share theirs.             *)

InitScenario ==
    /\ disease = [pcatch |-> 100, pdie |-> 0, minE |-> 1, kE |-> 1,
                  minI |-> 1, kI |-> 1, ndist |-> ScenarioContacts,
                  timeQ |-> 0]
    /\ \E N \in ScenarioSizes, n0 \in numNeighbors(disease), n1 \in numNeighbors(disease) :
          map = [x \in 0..(N - 1) |-> [y \in 0..(N - 1) |->
                    Host(0, 0, IF <<x, y>> = <<2, 2>> THEN n0 ELSE n1)]]
    /\ T \in 0..MaxScenarioT
    /\ M = 1
    /\ S = 1
    /\ pc = "main"
    /\ t = 0
    /\ timers = <<>>
    /\ i = 0
    /\ advances = 0
    /\ visits = NoVisits
    /\ argv = <<>>
    /\ status = -1
    /\ printed = NoOutput
    /\ seeded = <<>>
    /\ twin = <<>>
    /\ draws = 0
    /\ contacts = <<>>

NextScenario ==
    \/ MainSeed(TRUE)
    \/ ConsoleStep
    \/ ConsoleExit

SpecScenario == InitScenario /\ [][NextScenario]_vars

-----------------------------------------------------------------------------
(* SpecStep: computeNext() on grids whose hosts are in any stage a run     *)
(* leaves between two steps, for a pathogen whose periods last one or two  *)
(* days; every step is traced in contacts.  The hosts of one row start     *)
(* with the same contact count.                                            *)

StepShapes == {<<2, 2>>, <<1, 3>>, <<3, 1>>}

\* the largest value of a set of periods
MaxOf(ps) == CHOOSE n \in ps : \A k \in ps : k <= n

\* a host between two steps, with contact count n: Susceptible, Exposed or
\* Infectious with any number of days left that the period drawn can have
\* counted down to, Recovered or Deceased with the 0 that worsen left
StepHosts(d, n) ==
    {Host(0, 0, n), Host(4, 0, n), Host(5, 0, n)}
        \cup {Host(1, k, n) : k \in 1..MaxOf(incubationPeriod(d))}
        \cup {Host(2, k, n) : k \in 1..MaxOf(infectionPeriod(d))}

InitStep ==
    /\ disease = [pcatch |-> 50, pdie |-> 50, minE |-> 1, kE |-> 2,
                  minI |-> 1, kI |-> 2, ndist |-> ContactCounts,
                  timeQ |-> 0]
    /\ \E shape \in StepShapes :
        \E ns \in [0..(shape[1] - 1) -> numNeighbors(disease)] :
          /\ map \in [0..(shape[1] - 1) -> [0..(shape[2] - 1) ->
                        UNION {StepHosts(disease, n) : n \in numNeighbors(disease)}]]
          /\ \A c \in Cells(map) : map[c[1]][c[2]].nbrs = ns[c[1]]
    /\ T = 0 /\ M = 0 /\ S = 0
    /\ pc = "step"
    /\ t = 0
    /\ timers = <<>>
    /\ i = 0
    /\ advances = 0
    /\ visits = NoVisits
    /\ argv = <<>>
    /\ status = -1
    /\ printed = NoOutput
    /\ seeded = <<>>
    /\ twin = <<>>
    /\ draws = 0
    /\ contacts = <<>>

\* the values one computeNext() takes from Pathogen::rng, for the grid m
\* before it, the grid m2 after it and its trace: will_catch() for every
\* expose, incubationPeriod() for every infect, infectionPeriod() for every
\* host that worsen turns Infectious, will_die() for every host that expires
StepDraws(m, m2, log) ==
    Cardinality({n \in DOMAIN log : log[n].drawn})
        + Cardinality({n \in DOMAIN log : log[n].caught})
        + Cardinality({c \in Cells(m) : isExposed(m[c[1]][c[2]]) /\ isInfectious(m2[c[1]][c[2]])})
        + Cardinality({c \in Cells(m) : isInfectious(m[c[1]][c[2]]) /\ ~isInfectious(m2[c[1]][c[2]])})

\* map.computeNext()
StepAdvance ==
    /\ pc \in {"step", "advanced"}
    /\ \E r \in computeNextTraced(disease, map) :
          /\ map' = r.m
          /\ contacts' = r.log
          /\ draws' = StepDraws(map, r.m, r.log)
    /\ pc' = "advanced"
    /\ UNCHANGED <<disease, T, M, S, t, timers, i, advances, visits>>
    /\ UNCHANGED <<argv, status, printed, seeded, twin>>

NextStep == StepAdvance

SpecStep == InitStep /\ [][NextStep]_vars

-----------------------------------------------------------------------------
(* SpecHalt: the runs of Spec in which no key is pressed, with the program  *)
(* never stopping while it has a step to take: the console loop runs on,   *)
(* and glutMainLoop calls every timer callback that is due.                *)

InitHalt == Init

NextHalt ==
    \/ \E console \in BOOLEAN : MainSeed(console)
    \/ ConsoleStep
    \/ ConsoleExit
    \/ UpdateBegin
    \/ UpdateStep
    \/ UpdateHalt

\* main goes on to seed the map and to read the choice of the driver
SeedDone == pc = "main" /\ pc' \in {"console", "gui"}

\* the console loop goes on while its guard holds
ConsoleDay == pc = "console" /\ countInfected(map) > 0 /\ t < T /\ t' = t + 1

\* the for loop of update goes on to its next iteration
UpdateIteration == pc = "update" /\ i < M /\ i' = i + 1

\* The steps that must be taken when they stay possible.  The three above
\* are enabled exactly when MainSeed, ConsoleStep and UpdateStep are.
FairHalt ==
    /\ WF_pc(SeedDone)
    /\ WF_t(ConsoleDay)
    /\ WF_i(UpdateIteration)
    /\ WF_vars(ConsoleExit)
    /\ WF_vars(UpdateBegin)
    /\ WF_vars(UpdateHalt)

SpecHalt == InitHalt /\ [][NextHalt]_vars /\ FairHalt

-----------------------------------------------------------------------------
(* SpecCourse: computeNext() called day after day, for ever, with no       *)
(* seeding in between.  A single host is followed for every pathogen of    *)
(* CoursePathogens, minE = minI = 0 included; the 2 x 2 grids are followed *)
(* for minE = minI = 1.  t is the number of calls modulo 2, which tells a  *)
(* call from no call.                                                      *)

CourseShapes == {<<1, 1>>, <<2, 2>>}

CoursePathogens == {d \in Pathogens({50}, MinDays, {8}) : d.minE = d.minI}

\* a host between two steps: Susceptible, Exposed with an incubation period
\* just drawn, Infectious with an infection period just drawn, Recovered or
\* Deceased
CourseHosts(d, n) ==
    {Host(0, 0, n), Host(4, 0, n), Host(5, 0, n)}
        \cup {Host(1, k, n) : k \in incubationPeriod(d)}
        \cup {Host(2, k, n) : k \in infectionPeriod(d)}

InitCourse ==
    /\ disease \in CoursePathogens
    /\ \E shape \in CourseShapes, n \in numNeighbors(disease) :
          /\ shape # <<1, 1>> => disease.minE = 1
          /\ map \in [0..(shape[1] - 1) -> [0..(shape[2] - 1) -> CourseHosts(disease, n)]]
    /\ T = 0 /\ M = 0 /\ S = 0
    /\ pc = "course"
    /\ t = 0
    /\ timers = <<>>
    /\ i = 0
    /\ advances = 0
    /\ visits = NoVisits
    /\ argv = <<>>
    /\ status = -1
    /\ printed = NoOutput
    /\ seeded = <<>>
    /\ twin = <<>>
    /\ draws = 0
    /\ contacts = <<>>

\* map.computeNext()
CourseAdvance ==
    /\ pc = "course"
    /\ map' \in computeNext(disease, map)
    /\ t' = (t + 1) % 2
    /\ UNCHANGED <<disease, T, M, S, pc, timers, i, advances, visits>>
    /\ UNCHANGED <<contacts, argv, status, printed, seeded, twin, draws>>

NextCourse == CourseAdvance

\* the next call of computeNext() is made
CourseDay == pc = "course" /\ t' = (t + 1) % 2

SpecCourse == InitCourse /\ [][NextCourse]_vars /\ WF_t(CourseDay)

-----------------------------------------------------------------------------
(* Properties                                                              *)

StageAt(m, c) == m[c[1]][c[2]].stage

DaysAt(m, c) == m[c[1]][c[2]].days

IsTerminal(st) == st \in {4, 5}

\* a step that performs one computeNext()
IsAdvance == advances' = advances + 1

\* a step that performs Scenario::reset(), which starts a new run
IsReset == pc = "gui" /\ Len(timers') = Len(timers) + 1

countSusceptible(m) == Cardinality({c \in Cells(m) : isSusceptible(m[c[1]][c[2]])})

\* C1: every advance() leaves each host's stage where it was or moves it one
\* stage forward along Susceptible -> Exposed -> Infectious -> Resolved ->
\* {Recovered | Deceased}; none moves a host back or makes it skip a stage.
\* State 3 (Resolved) is entered and left inside worsen, so between steps the
\* move out of Infectious ends in 4 or 5.
C1_StagesOnlyForward ==
    [][IsAdvance => \A c \in Cells(map) :
            LET a == StageAt(map, c)
                b == StageAt(map', c)
            IN  \/ b = a
                \/ a = 0 /\ b = 1
                \/ a = 1 /\ b = 2
                \/ a = 2 /\ IsTerminal(b)]_vars

\* from one seed and with periods of one day, a host exposed by a contact
\* has gone through the whole path and has exposed a third host
C1_Witness ==
    /\ S = 1 /\ disease.minE = 1 /\ disease.minI = 1
    /\ advances = 4
    /\ countRecovered(map) + countDeceased(map) = 2
    /\ \E c \in Cells(map) : StageAt(map, c) = 1

C3_PopulationConserved ==
    countInfected(map) + countRecovered(map) + countDeceased(map) + countSusceptible(map)
        = row_count(map) * col_count(map)

\* hosts of all four kinds after the fourth advance
C3_Witness ==
    /\ disease.minE = 1 /\ disease.minI = 1
    /\ advances = 4
    /\ countInfected(map) > 0
    /\ countRecovered(map) > 0
    /\ countDeceased(map) > 0
    /\ countSusceptible(map) > 0

\* C4: daysRemaining >= 0 for every host in every state, for every pathogen,
\* minE = 0 and minI = 0 included.
C4_DaysNeverNegative == \A c \in Cells(map) : DaysAt(map, c) >= 0

\* C5: between steps no Exposed or Infectious host has daysRemaining = 0.
C5_InfectedHaveDaysLeft ==
    \A c \in Cells(map) : StageAt(map, c) \in {1, 2} => DaysAt(map, c) >= 1

\* C6: with pE = 0 no advance() turns a Susceptible host Exposed.
C6_Isolation ==
    [][(disease.pcatch = 0 /\ IsAdvance) =>
            \A c \in Cells(map) : StageAt(map, c) = 0 => StageAt(map', c) = 0]_vars

\* with pE = 0 a host with a 3 x 3 neighbourhood was infectious for a day
\* and resolved, next to a host that is still Susceptible
C6_Witness ==
    /\ disease.pcatch = 0
    /\ disease.minE = 1 /\ disease.minI = 1
    /\ advances >= 2
    /\ \E c \in Cells(map) : IsTerminal(StageAt(map, c)) /\ map[c[1]][c[2]].nbrs = 8
    /\ countSusceptible(map) > 0

\* C7: the death draw alone decides the terminal stage: with pD = 1 no host
\* is ever Recovered, with pD = 0 no host is ever Deceased.
C7_DeathDrawDecides ==
    /\ disease.pdie = 100 => countRecovered(map) = 0
    /\ disease.pdie = 0 => countDeceased(map) = 0

\* with pD = 1 the infectious periods of the seed and of a host it exposed
\* have ended
C7_Witness ==
    /\ disease.pdie = 100
    /\ disease.minE = 1 /\ disease.minI = 1
    /\ countDeceased(map) >= 2

\* C8: on a grid of at least 2 x 2 the contact search of a corner host with
\* half-width 1 resolves exactly the rows and columns one step around the
\* corner, wrapped: for (0, 0) the rows {rows-1, 0, 1} and the columns
\* {cols-1, 0, 1}; on a grid of at least 3 x 3 these are 9 distinct cells.
C8_CornerWrap ==
    LET R == row_count(map)
        C == col_count(map)
        x == visits.at[1]
        y == visits.at[2]
        seen == {visits.cells[n] : n \in DOMAIN visits.cells}
    IN  (/\ Len(visits.cells) = 9
         /\ R >= 2 /\ C >= 2
         /\ x \in {0, R - 1} /\ y \in {0, C - 1})
        => /\ seen = {(x + dx) % R : dx \in -1..1} \X {(y + dy) % C : dy \in -1..1}
           /\ (x = 0 /\ y = 0) => seen = {R - 1, 0, 1} \X {C - 1, 0, 1}
           /\ (R >= 3 /\ C >= 3) => Cardinality(seen) = 9

C8_Witness ==
    /\ visits.at = <<0, 0>>
    /\ Len(visits.cells) = 9
    /\ row_count(map) = 3 /\ col_count(map) = 3
    /\ \E n \in DOMAIN visits.cells : visits.cells[n] = <<2, 2>>

\* C9: every cell the contact search resolves lies inside the grid, for
\* every grid size and every half-width.
C9_SearchStaysInGrid ==
    \A n \in DOMAIN visits.cells : visits.cells[n] \in Cells(map)

\* C10: every advance() of a driver happens while countInfected() > 0 and
\* fewer than T advance() calls have been made in the run.
C10_GuardBeforeEveryStep ==
    [][IsAdvance => (countInfected(map) > 0 /\ advances < T)]_vars

\* C11: the day count the console driver prints when it halts (t, in "After t
\* days...") is the number of computeNext() calls it made, on burn-out and
\* on an exhausted day budget alike.
C11_ReportedDaysAreAdvances == pc = "done" => t = advances

\* the 8 cells around the centre (2, 2) of the 5 x 5 grid
Ring == {c \in Cells(map) : c # <<2, 2>> /\ c[1] \in 1..3 /\ c[2] \in 1..3}

\* The scenario, whatever contact count the centre drew.  After the first
\* advance only the seed is not Susceptible, and until the fourth advance
\* only the seed is Recovered, which is how the seed at (2, 2) is recognised.
ScenarioSteps(anyCount) ==
    LET centre == <<2, 2>>
        k1 == anyCount \/ HalfWidth(map[2][2].nbrs) = 1
    IN  /\ (advances = 1 /\ StageAt(map, centre) # 0) => StageAt(map, centre) = 2
        /\ (advances = 2 /\ StageAt(map, centre) > 2 /\ k1)
              => /\ StageAt(map, centre) = 4
                 /\ \A c \in Ring : StageAt(map, c) = 1
        /\ (advances = 3 /\ StageAt(map, centre) > 2 /\ k1)
              => \A c \in Ring : StageAt(map, c) = 2
        /\ countDeceased(map) = 0
        /\ advances >= 2 => countRecovered(map) >= 1
        /\ (pc = "done" /\ advances < T) => countInfected(map) = 0

C13_SeedIndexOntoGrid ==
    /\ \A j \in DOMAIN seeded : seeded[j] \in Cells(map)
    /\ pc = "seed" => {SeedCoord(map, k) : k \in SeedIndices(map)} = Cells(map)

\* C14: after reset() and seedDisease(count) with count >= 1 between 1 and
\* min(count, rows*cols) hosts are Exposed, each with a period incubationPeriod()
\* can return, and every other host is Susceptible with days 0; after
\* seedDisease(0) every host is as reset() left it.
C14_SeedAfterReset ==
    pc = "seed" =>
        LET cells == row_count(map) * col_count(map)
            fresh(h) == isSusceptible(h) /\ h.days = 0
        IN  /\ S >= 1 => /\ countInfected(map) >= 1
                         /\ countInfected(map) <= IF S < cells THEN S ELSE cells
            /\ S = 0 => countInfected(map) = 0
            /\ \A c \in Cells(map) :
                  \/ fresh(map[c[1]][c[2]])
                  \/ isExposed(map[c[1]][c[2]]) /\ DaysAt(map, c) \in incubationPeriod(disease)

\* C15: two runs of seedDisease(count) from the same grid and the same state
\* of the shared generator seed the same cells with the same periods.
C15_SeedingReproducible == pc = "seed" => twin = map

\* C16: reset() leaves every host Susceptible with days 0 and a contact
\* count >= 1, whatever the grid was; a second reset() changes no stage and
\* no days.
C16_ResetRestores ==
    [][pc' = "reset" =>
          /\ \A c \in Cells(map') :
                StageAt(map', c) = 0 /\ DaysAt(map', c) = 0 /\ map'[c[1]][c[2]].nbrs >= 1
          /\ pc = "reset" =>
                \A c \in Cells(map) :
                    StageAt(map', c) = StageAt(map, c) /\ DaysAt(map', c) = DaysAt(map, c)]_vars

\* a grid that was seeded twice over has been reset
C16_Witness ==
    /\ pc = "reset"
    /\ S = 2
    /\ row_count(map) = 2 /\ col_count(map) = 2
    /\ countSusceptible(map) = 4

\* C17: the three count queries of printSummary() change no host and take
\* no value from the generator, and countInfected() is the number of hosts
\* whose stage is Exposed or Infectious.
C17_QueriesPure ==
    [][pc' = "summary" =>
          /\ map' = map
          /\ draws' = 0
          /\ printed'.summary[3]
                = Cardinality({c \in Cells(map) : StageAt(map, c) \in {1, 2}})
          /\ printed'.summary[2]
                = Cardinality({c \in Cells(map) : StageAt(map, c) = 4})
          /\ printed'.summary[1]
                = Cardinality({c \in Cells(map) : StageAt(map, c) = 5})]_vars

\* a summary of a grid with an Exposed, an Infectious, a Recovered and a
\* Deceased host
C17_Witness ==
    /\ pc = "summary"
    /\ printed.summary = <<1, 1, 2>>
    /\ \E c \in Cells(map) : StageAt(map, c) = 1
    /\ \E c \in Cells(map) : StageAt(map, c) = 2

\* C18: print() writes 's' for a Susceptible, 'e' for an Exposed, 'I' for an
\* Infectious, a space for a Deceased and 'R' for a Recovered host.
C18_PrintedCharacters ==
    pc = "done" =>
        \A c \in Cells(map) :
            printed.grid[c[1]][c[2]] =
                CASE StageAt(map, c) = 0 -> "s"
                  [] StageAt(map, c) = 1 -> "e"
                  [] StageAt(map, c) = 2 -> "I"
                  [] StageAt(map, c) = 4 -> "R"
                  [] StageAt(map, c) = 5 -> " "

\* the parameter is a decimal number: digits, with at most a decimal point
IsNumeric(str) ==
    /\ str # <<>>
    /\ \A j \in DOMAIN str : IsDigit(str[j]) \/ str[j] = "."

\* C19: with a parameter count other than 12 the program writes the usage
\* and exits with status 1, having built no grid, seeded nothing and made no
\* step; with 12 parameters a run that ends exits with status 0.
C19_UsageOnWrongCount ==
    /\ Len(argv) # 12 =>
          /\ map = <<>> /\ advances = 0
          /\ pc = "done" => (status = 1 /\ printed.usage)
    /\ Len(argv) = 12 => (pc = "done" => status = 0)

\* one parameter too many: usage and status 1
C19_Witness == Len(argv) = 13 /\ pc = "done" /\ status = 1 /\ printed.usage

\* C20: a parameter that is no number is fatal at startup: no grid is built
\* and the program ends with the usage and a non-zero status.
C20_MalformedIsFatal ==
    (\E j \in DOMAIN argv : ~IsNumeric(argv[j])) =>
        /\ map = <<>>
        /\ pc = "done" => (status = 1 /\ printed.usage)

\* the records of the trace log made by the contact search of the host at c
ContactsOf(log, c) == LET Mine(e) == e.from = c IN SelectSeq(log, Mine)

\* C21: in every computeNext() each host that was Infectious before the step
\* runs its whole contact search, over the (2k+1)^2 coordinates of its block,
\* whether it is still Infectious after the step or Recovered or Deceased;
\* expose is called for every cell of the block that the step leaves
\* Susceptible.
C21_InfectiousAlwaysSearch ==
    [][pc' = "advanced" =>
          \A c \in Cells(map) :
              StageAt(map, c) = 2 =>
                  LET cs == ContactCoords(c[1], c[2], HalfWidth(map[c[1]][c[2]].nbrs))
                      mine == ContactsOf(contacts', c)
                  IN  /\ Len(mine) = Len(cs)
                      /\ \A n \in DOMAIN cs :
                            /\ mine[n].to = getNeighbor(map, cs[n][1], cs[n][2])
                            /\ StageAt(map', mine[n].to) = 0 => mine[n].drawn]_vars

\* a host on its last infectious day resolved in the step and exposed a
\* neighbour in it
C21_Witness ==
    /\ pc = "advanced"
    /\ \E n \in DOMAIN contacts :
          /\ IsTerminal(StageAt(map, contacts[n].from))
          /\ contacts[n].caught
          /\ StageAt(map, contacts[n].to) = 1

\* C22: in one computeNext() an infectious host makes at most one
\* transmission draw for any other cell: no two expose calls of the trace
\* have the same infectious host and the same target.
C22_OneDrawPerPair ==
    pc = "advanced" =>
        \A a \in DOMAIN contacts, b \in DOMAIN contacts :
            (/\ a < b
             /\ contacts[a].from = contacts[b].from
             /\ contacts[a].to = contacts[b].to
             /\ contacts[a].to # contacts[a].from)
                => ~(contacts[a].drawn /\ contacts[b].drawn)

\* C23: computeNext() and seedDisease() leave the contact count of every
\* host as it is, through every stage transition: in a run without reset()
\* each host keeps the count the constructor drew.
C23_ContactCountKept ==
    [][\A c \in Cells(map) : map'[c[1]][c[2]].nbrs = map[c[1]][c[2]].nbrs]_vars

\* hosts with different contact counts, one of them through all its stages,
\* the other exposed by a contact
C23_Witness ==
    /\ S = 1
    /\ advances >= 2
    /\ \E c \in Cells(map), e \in Cells(map) :
          /\ IsTerminal(StageAt(map, c)) /\ map[c[1]][c[2]].nbrs = 8
          /\ StageAt(map, e) \in {1, 2} /\ map[e[1]][e[2]].nbrs = 2

\* C24: no host is in state 3 (Resolved) after the construction of the map,
\* after seedDisease(), after Scenario::reset() or after a computeNext(); a
\* host on its last infectious day is Recovered or Deceased when the
\* computeNext() returns.
C24_ResolvedNeverObserved ==
    [][/\ \A c \in Cells(map) : StageAt(map, c) # 3
       /\ \A c \in Cells(map') : StageAt(map', c) # 3
       /\ IsAdvance =>
              \A c \in Cells(map) :
                  (StageAt(map, c) = 2 /\ DaysAt(map, c) = 1) => IsTerminal(StageAt(map', c))]_vars

\* in the GUI, infectious periods have ended while other hosts are infected
C24_Witness ==
    /\ pc = "gui"
    /\ advances >= 2
    /\ countRecovered(map) + countDeceased(map) >= 1
    /\ countInfected(map) >= 1

\* C25: the days a host is given when it becomes Exposed are >= minE, the
\* days it is given when it becomes Infectious are >= minI, and every host's
\* contact count is >= 1.
C25_LowerBounds ==
    [][\A c \in Cells(map) :
          /\ (StageAt(map, c) = 0 /\ StageAt(map', c) = 1) => DaysAt(map', c) >= disease.minE
          /\ (StageAt(map, c) = 1 /\ StageAt(map', c) = 2) => DaysAt(map', c) >= disease.minI
          /\ map[c[1]][c[2]].nbrs >= 1
          /\ map'[c[1]][c[2]].nbrs >= 1]_vars

\* with minimal periods of one day, a host exposed by the seed in the second
\* step became Infectious in the third
C25_Witness ==
    /\ disease.minE = 1 /\ disease.minI = 1
    /\ S = 1
    /\ advances = 3
    /\ countRecovered(map) + countDeceased(map) = 1
    /\ \E c \in Cells(map) : StageAt(map, c) = 2 /\ DaysAt(map, c) >= 1

\* C26: the half-width k computed from a contact count n >= 1 is the integer
\* with (2k)^2 <= n + 1 < (2k+2)^2; for n = (2j+1)^2 - 1 it is j; and the
\* search runs over exactly (2k+1)^2 coordinates.
C26_HalfWidthInvertsBlock ==
    LET n == map[visits.at[1]][visits.at[2]].nbrs
        k == HalfWidth(n)
    IN  /\ (2 * k) * (2 * k) <= n + 1
        /\ n + 1 < (2 * k + 2) * (2 * k + 2)
        /\ \A j \in 0..n : n = (2 * j + 1) * (2 * j + 1) - 1 => k = j
        /\ visits.cells # <<>> => Len(visits.cells) = (2 * k + 1) * (2 * k + 1)

\* a search with contact count 24 over the 25 coordinates of its block
C26_Witness ==
    /\ map[visits.at[1]][visits.at[2]].nbrs = 24
    /\ Len(visits.cells) = 25
    /\ row_count(map) = 3 /\ col_count(map) = 3

\* C27, step by step: a computeNext() takes one day from an Exposed or
\* Infectious host that has two or more days left and leaves its stage; it
\* makes an Exposed host with one day left Infectious, with days drawn by
\* infectionPeriod(), and an Infectious host with one day left Recovered or
\* Deceased.  A host with d >= 1 days left therefore keeps its stage for d-1
\* steps and leaves it in the d-th.
C27_StageLastsItsDays ==
    [][pc' = "advanced" =>
          \A c \in Cells(map) :
              LET h == map[c[1]][c[2]]
                  h2 == map'[c[1]][c[2]]
              IN  /\ (h.stage \in {1, 2} /\ h.days >= 2) =>
                        (h2.stage = h.stage /\ h2.days = h.days - 1)
                  /\ (isExposed(h) /\ h.days = 1) =>
                        (isInfectious(h2) /\ h2.days \in infectionPeriod(disease))
                  /\ (isInfectious(h) /\ h.days = 1) => IsTerminal(h2.stage)]_vars

\* in one step a host became Infectious for two days (it made no contact
\* search), a second one counted down to its last infectious day and a third
\* one resolved
C27_Witness ==
    /\ pc = "advanced"
    /\ \E c \in Cells(map), e \in Cells(map), f \in Cells(map) :
          /\ StageAt(map, c) = 2 /\ DaysAt(map, c) = 2 /\ ContactsOf(contacts, c) = <<>>
          /\ StageAt(map, e) = 2 /\ DaysAt(map, e) = 1 /\ ContactsOf(contacts, e) # <<>>
          /\ IsTerminal(StageAt(map, f)) /\ ContactsOf(contacts, f) # <<>>

\* C28: once a host has been made Exposed in a computeNext(), no search that
\* resolves its cell later in the same step calls expose for it: there is no
\* further transmission draw and its incubation period is not drawn again.
C28_ExposedIsSkipped ==
    pc = "advanced" =>
        \A a \in DOMAIN contacts, b \in DOMAIN contacts :
            (a < b /\ contacts[a].caught /\ contacts[b].to = contacts[a].to)
                => ~contacts[b].drawn

\* a host exposed by one infectious host was resolved again by the search of
\* another one, later in the step
C28_Witness ==
    /\ pc = "advanced"
    /\ \E a \in DOMAIN contacts, b \in DOMAIN contacts :
          /\ a < b
          /\ contacts[a].caught
          /\ contacts[b].to = contacts[a].to
          /\ contacts[b].from # contacts[a].from
          /\ StageAt(map, contacts[a].to) = 1

\* C29: seedDisease() acts on a grid of Susceptible hosts only: main calls it
\* on the map just constructed, and Scenario::reset() calls map.reset() first.
\* After either, every host is Susceptible with days 0 or Exposed, at most S
\* hosts are Exposed, and none is Infectious, Recovered or Deceased, whatever
\* the grid was before.
C29_SeedOnlyAfterReset ==
    [][(IsReset \/ pc = "main") =>
          /\ pc = "main" => \A c \in Cells(map) : StageAt(map, c) = 0
          /\ \A c \in Cells(map') :
                \/ StageAt(map', c) = 0 /\ DaysAt(map', c) = 0
                \/ StageAt(map', c) = 1
          /\ countInfected(map') <= S]_vars

\* the 'r' key was pressed after the first chain of updates had made steps:
\* the grid, reset and seeded again, holds infected hosts and no step has
\* been made on it
C29_Witness ==
    /\ pc = "gui"
    /\ M >= 1
    /\ Len(timers) = 2 /\ timers[1] >= 1 /\ timers[2] = 0
    /\ advances = 0
    /\ S = 2
    /\ countInfected(map) >= 1

\* C30: when the half-width k of a search is smaller than the length N of an
\* axis, getNeighbor maps every coordinate of the search on that axis, which
\* lies in -k..N-1+k, to the index true modulo arithmetic gives.
C30_WrapIsModulo ==
    LET x == visits.at[1]
        y == visits.at[2]
        k == HalfWidth(map[x][y].nbrs)
        cs == ContactCoords(x, y, k)
    IN  visits.cells # <<>> =>
            \A n \in DOMAIN cs :
                /\ k < row_count(map) =>
                      /\ cs[n][1] \in (-k)..(row_count(map) - 1 + k)
                      /\ visits.cells[n][1] = cs[n][1] % row_count(map)
                /\ k < col_count(map) =>
                      /\ cs[n][2] \in (-k)..(col_count(map) - 1 + k)
                      /\ visits.cells[n][2] = cs[n][2] % col_count(map)

\* a search of half-width 2 from the last cell of the 3 x 3 grid: coordinates
\* from 0 to 4 on both axes
C30_Witness ==
    /\ row_count(map) = 3 /\ col_count(map) = 3
    /\ visits.at = <<2, 2>>
    /\ Len(visits.cells) = 25
    /\ visits.cells[25] = <<1, 1>>

\* the number of the cell c in the row-major scan
ScanIndex(m, c) == c[1] * col_count(m) + c[2]

\* C31: a host that a computeNext() makes Exposed is Exposed when the step
\* returns, with days that incubationPeriod() can have drawn: the scan does
\* not worsen it in the same step, whether its cell comes before or after the
\* infectious host's in the scan.
C31_NewlyExposedNotAdvanced ==
    [][pc' = "advanced" =>
          \A c \in Cells(map) :
              (StageAt(map, c) = 0 /\ StageAt(map', c) # 0) =>
                  /\ StageAt(map', c) = 1
                  /\ DaysAt(map', c) \in incubationPeriod(disease)]_vars

\* one infectious host exposed a host whose cell the scan had passed and a
\* host whose cell the scan had yet to reach
C31_Witness ==
    /\ pc = "advanced"
    /\ \E a \in DOMAIN contacts, b \in DOMAIN contacts :
          /\ contacts[a].from = contacts[b].from
          /\ contacts[a].caught /\ contacts[b].caught
          /\ ScanIndex(map, contacts[a].to) < ScanIndex(map, contacts[a].from)
          /\ ScanIndex(map, contacts[b].to) > ScanIndex(map, contacts[b].from)
          /\ StageAt(map, contacts[a].to) = 1
          /\ StageAt(map, contacts[b].to) = 1

\* the cells at most k rows and k columns away from s on the torus
Neighbourhood(m, s, k) ==
    {<<(s[1] + dx) % row_count(m), (s[2] + dy) % col_count(m)>> : dx \in (-k)..k, dy \in (-k)..k}

\* C32: a host that a computeNext() makes Exposed lies in the toroidal
\* (2k+1) x (2k+1) neighbourhood of a host that was Infectious before the
\* step, k being that host's half-width; every contact search of the step is
\* that of a host Infectious before the step, so a host that becomes
\* Infectious in the step exposes nobody in it.
C32_ExposureIsLocal ==
    [][pc' = "advanced" =>
          /\ \A c \in Cells(map) :
                (StageAt(map, c) = 0 /\ StageAt(map', c) = 1) =>
                    \E s \in Cells(map) :
                        /\ StageAt(map, s) = 2
                        /\ c \in Neighbourhood(map, s, HalfWidth(map[s[1]][s[2]].nbrs))
          /\ \A n \in DOMAIN contacts' : StageAt(map, contacts'[n].from) = 2]_vars

\* a host was exposed in a step in which another host turned Infectious and
\* made no search, next to a host left Susceptible
C32_Witness ==
    /\ pc = "advanced"
    /\ \E n \in DOMAIN contacts : contacts[n].caught
    /\ \E c \in Cells(map) : StageAt(map, c) = 2 /\ ContactsOf(contacts, c) = <<>>
    /\ \E c \in Cells(map) : StageAt(map, c) = 0

\* C33: a computeNext() on a grid with no Exposed and no Infectious host
\* changes no host (state, days, contact count), makes no contact search and
\* takes no value from the generator.
C33_NoInfectedNoChange ==
    [][(pc' = "advanced" /\ \A c \in Cells(map) : StageAt(map, c) \in {0, 4, 5}) =>
          /\ map' = map
          /\ contacts' = <<>>
          /\ draws' = 0]_vars

\* a step was made on a grid of Susceptible, Recovered and Deceased hosts
C33_Witness ==
    /\ pc = "advanced"
    /\ draws = 0
    /\ \A c \in Cells(map) : StageAt(map, c) \in {0, 4, 5}
    /\ countSusceptible(map) >= 1
    /\ countRecovered(map) >= 1
    /\ countDeceased(map) >= 1

\* C34: an infectious host with contact count 1 or 2 has half-width 0, its
\* search resolves its own cell only, and it exposes nobody, also with
\* pE = 1: every host a computeNext() makes Exposed has, before the step, an
\* Infectious host with a larger count.
C34_FewContactsExposeNobody ==
    [][IsAdvance =>
          /\ \A s \in Cells(map) :
                (StageAt(map, s) = 2 /\ map[s[1]][s[2]].nbrs \in {1, 2}) =>
                    /\ HalfWidth(map[s[1]][s[2]].nbrs) = 0
                    /\ Visited(map, s[1], s[2]) = <<s>>
          /\ \A c \in Cells(map) :
                (StageAt(map, c) = 0 /\ StageAt(map', c) = 1) =>
                    \E s \in Cells(map) :
                        StageAt(map, s) = 2 /\ map[s[1]][s[2]].nbrs \notin {1, 2}]_vars

\* with pE = 1 the seed, whose contact count is 1, was Infectious for a day
\* and recovered, and all the other hosts are still Susceptible
C34_Witness ==
    /\ disease.pcatch = 100
    /\ advances = 2
    /\ countSusceptible(map) = row_count(map) * col_count(map) - 1
    /\ \E c \in Cells(map) : StageAt(map, c) = 4 /\ map[c[1]][c[2]].nbrs = 1

\* The pure synchronous update C35 compares computeNext() with, cell by cell
\* and without a scan: a host Exposed or Infectious yesterday is worsened; a
\* host Susceptible yesterday that lies in the block of a host Infectious
\* yesterday takes a transmission draw and, on success, an incubation
\* period; every other host is left as it is.
SynchronousOutcomes(d, m, c) ==
    LET h == m[c[1]][c[2]]
        reached == \E s \in Cells(m) :
                      /\ isInfectious(m[s[1]][s[2]])
                      /\ \E n \in DOMAIN Visited(m, s[1], s[2]) : Visited(m, s[1], s[2])[n] = c
    IN  IF isExposed(h) \/ isInfectious(h) THEN worsen(d, h)
        ELSE IF isSusceptible(h) /\ reached THEN expose(d, h)
        ELSE {h}

\* the grids whose cells from number n on are any of their synchronous
\* outcomes, computed from yesterday's grid m alone, the others as in m2
RECURSIVE SynchronousFrom(_, _, _, _)
SynchronousFrom(d, m, m2, n) ==
    LET x == n \div col_count(m)
        y == n % col_count(m)
    IN  IF n >= row_count(m) * col_count(m) THEN {m2}
        ELSE UNION {SynchronousFrom(d, m, [m2 EXCEPT ![x][y] = h], n + 1) :
                        h \in SynchronousOutcomes(d, m, <<x, y>>)}

computeNextSynchronous(d, m) == SynchronousFrom(d, m, m, 0)

\* C35: with the draws taken as free choices, the grids computeNext() can
\* leave are those of the pure synchronous update, whose outcome does not
\* depend on an order of the cells.
C35_SameOutcomesAsSynchronous ==
    computeNext(disease, map) = computeNextSynchronous(disease, map)

\* the step just made is one where the two updates act differently: a host
\* Susceptible the day before was exposed by one infectious host and then
\* passed over by the search of another, on the 2 x 2 grid
C35_Witness ==
    /\ pc = "advanced"
    /\ row_count(map) = 2 /\ col_count(map) = 2
    /\ \E a \in DOMAIN contacts, b \in DOMAIN contacts :
          /\ a < b
          /\ contacts[a].caught
          /\ contacts[b].to = contacts[a].to
          /\ contacts[b].from # contacts[a].from
          /\ ~contacts[b].drawn

\* C36: in the GUI at most one update callback is pending at any time, also
\* after the 'r' key.
C36_OneUpdatePending == Len(timers) <= 1

\* C37: every driver halts, for every T and every M: the console loop ends,
\* and the chain of update callbacks stops rescheduling itself, so that no
\* callback is pending.
C37_DriversHalt == <>(pc = "done" \/ (pc = "gui" /\ timers = <<>>))

\* the cells of the largest grid of SpecCourse
CourseCells == (0..1) \X (0..1)

InfectedAt(c) == c \in Cells(map) /\ StageAt(map, c) \in {1, 2}

TerminalAt(c) == c \in Cells(map) /\ IsTerminal(StageAt(map, c))

C39_ParametersReachPathogen ==
    (pc # "start" /\ ArgCountOk(argv) /\ \A k \in 5..10 : IsNumeric(argv[k])) =>
        /\ disease.minE = Atoi(argv[5])
        /\ disease.kE = Atoi(argv[6])
        /\ disease.minI = Atoi(argv[7])
        /\ disease.kI = Atoi(argv[8])
        /\ numNeighbors(disease) = {1 + Atoi(argv[9])}
        /\ disease.timeQ = Atoi(argv[10])

====
